---- MODULE Spec2Model ----
(***************************************************************************)
(* Model of src/sensor_dashboard.py: the SensorDashboard over its SQLite   *)
(* store (tables sensors, readings, alerts).                               *)
(*                                                                         *)
(* Every `with db_conn(...)` block of the source is one transaction and    *)
(* one atomic step here; a method that opens several of them in a row      *)
(* (log_reading, check_thresholds, detect_anomaly) is a chain of steps     *)
(* that callers sharing the database file may interleave.                  *)
(*                                                                         *)
(* Values are integers (the source's floats, without rounding), times are  *)
(* integer clock readings: datetime.now(timezone.utc) is a non-decreasing  *)
(* clock that may return the same value twice, and isoformat() strings of  *)
(* UTC times compare as the times do.  A uuid4() is a fresh number.        *)
(*                                                                         *)
(* ret is what the step just taken handed to its caller, <<method,         *)
(* outcome>>, when that step ended a call (a returned Sensor, Reading,     *)
(* Alert or None, or the exception raised); it is None after any other     *)
(* step.                                                                   *)
(***************************************************************************)
EXTENDS Integers, Sequences, FiniteSets, TLC

VARIABLES sensors, readings, alerts, clock, pc, loc, ret

vars == <<sensors, readings, alerts, clock, pc, loc, ret>>

\* ---------------------------------------------------------------- bounds
\* Rows per table and the last clock reading, for the callers of each
\* specification below.
MaxSensors == 2
MaxReadings == 2
MaxAlerts == 2
MaxClock == 1
MaxSensorsSeq == 1
MaxReadingsSeq == 5
MaxAlertsSeq == 1
MaxReadingsReg == 1

\* ------------------------------------------------------------ enumerations
SensorType == {"temperature", "humidity", "pressure", "co2", "light", "motion", "power"}

ReadingQuality == {"good", "degraded", "error"}

AlertType == {"threshold", "anomaly", "offline"}

AlertSeverity == {"info", "warning", "critical"}

DEFAULT_THRESHOLDS ==
  [t \in SensorType |->
     CASE t = "temperature" -> <<-40, 85>>
       [] t = "humidity"    -> <<0, 100>>
       [] t = "pressure"    -> <<870, 1084>>
       [] t = "co2"         -> <<400, 5000>>
       [] t = "light"       -> <<0, 100000>>
       [] t = "motion"      -> <<0, 1>>
       [] t = "power"       -> <<0, 10000>>]

\* Optional[...]: <<>> is None, <<v>> is the value v.
None == <<>>

Some(v) == <<v>>

\* At least this many values in the window, or detect_anomaly returns None.
MinSamples == 5

\* ------------------------------------------------------------------ inputs
\* The callers and the arguments they pass ("bogus" is a string that is no
\* member of the enumeration it is passed for).
\* ConcInputs: two callers and two sensors of the default range.
ConcInputs ==
  [procs |-> {"a", "b"},
   types |-> {"motion"},
   mins |-> {None},
   maxs |-> {None},
   offsets |-> {0},
   values |-> {0, 2},
   qualities |-> {"good", "bogus"},
   windows |-> {1},
   zts |-> {5},
   maxSensors |-> MaxSensors,
   maxReadings |-> MaxReadings,
   maxAlerts |-> MaxAlerts,
   maxClock |-> MaxClock]

\* SensorInputs: two callers and one sensor that is recalibrated, so that
\* calibrated values fall below, inside and above its range, in every quality.
SensorInputs ==
  [procs |-> {"a", "b"},
   types |-> {"motion"},
   mins |-> {None},
   maxs |-> {None},
   offsets |-> {0, 1},
   values |-> {-1, 2},
   qualities |-> {"good", "error"},
   windows |-> {1},
   zts |-> {5},
   maxSensors |-> MaxSensorsSeq,
   maxReadings |-> MaxReadings,
   maxAlerts |-> MaxAlerts,
   maxClock |-> MaxClock]

\* SeqInputs: one caller and one sensor, with enough readings for the anomaly
\* statistics; z_threshold is given in halves (2 is 1.0, 3 is 1.5).
SeqInputs ==
  [procs |-> {"a"},
   types |-> {"motion"},
   mins |-> {None},
   maxs |-> {None},
   offsets |-> {0},
   values |-> {0, 1},
   qualities |-> {"good", "error"},
   windows |-> {0, 1},
   zts |-> {2, 3},
   maxSensors |-> MaxSensorsSeq,
   maxReadings |-> MaxReadingsSeq,
   maxAlerts |-> MaxAlertsSeq,
   maxClock |-> MaxClock]

\* RegisterInputs: one caller registering sensors of every type, with each
\* bound given or left to DEFAULT_THRESHOLDS.
RegisterInputs ==
  [procs |-> {"a"},
   types |-> SensorType \cup {"bogus"},
   mins |-> {None, Some(2)},
   maxs |-> {None, Some(1)},
   offsets |-> {0},
   values |-> {0, 2},
   qualities |-> {"good"},
   windows |-> {1},
   zts |-> {5},
   maxSensors |-> MaxSensors,
   maxReadings |-> MaxReadingsReg,
   maxAlerts |-> MaxAlertsSeq,
   maxClock |-> MaxClock]

\* ------------------------------------------------------------------- state
NoLoc ==
  [op |-> "", sid |-> 0, value |-> 0, calibrated |-> 0, quality |-> "",
   rid |-> 0, now |-> 0, cur |-> None, alert |-> None, since |-> 0, zt |-> 0,
   ovl |-> "none"]

Init ==
  /\ sensors = << >>
  /\ readings = << >>
  /\ alerts = << >>
  /\ clock = 0
  /\ pc = [p \in ConcInputs.procs |-> "idle"]
  /\ loc = [p \in ConcInputs.procs |-> NoLoc]
  /\ ret = None

\* The steps of log_reading and of the check_thresholds it ends with.
IngestPcs == {"lr_now", "lr_insert", "ct_current", "ct_eval", "ct_alert"}

Ingesting(p) == pc[p] \in IngestPcs

\* ----------------------------------------------------------------- helpers
SensorIds == 1..Len(sensors)

\* A lookup that answers for an id it does not hold (a variant the properties
\* below must tell from get_sensor).
get_sensor_or_default(sensor_id) ==
  IF sensor_id \in SensorIds THEN Some(sensors[sensor_id])
  ELSE Some([id |-> sensor_id, type |-> "temperature", min_value |-> -40,
             max_value |-> 85, calibration_offset |-> 0])

get_sensor(sensor_id) ==
  IF sensor_id \in SensorIds THEN Some(sensors[sensor_id]) ELSE None

\* A fresh reading id: one no stored reading and no call in flight holds.
RECURSIVE SetMax(_)
SetMax(S) ==
  IF S = {} THEN 0
  ELSE LET x == CHOOSE y \in S : TRUE
           m == SetMax(S \ {x})
       IN IF x > m THEN x ELSE m

uuid4_reading ==
  1 + SetMax({readings[i].id : i \in 1..Len(readings)}
             \cup {loc[p].rid : p \in DOMAIN loc})

\* Rows of `readings` of one sensor, by rowid (insertion order).
RowsOf(sensor_id) == {i \in 1..Len(readings) : readings[i].sensor_id = sensor_id}

\* ORDER BY timestamp DESC LIMIT 1 over a set of rows: the greatest timestamp;
\* among equal timestamps the index (sensor_id, timestamp, rowid), read
\* backwards, yields the greatest rowid.
LastRow(rows) ==
  CHOOSE i \in rows :
    \A j \in rows :
      \/ readings[j].timestamp < readings[i].timestamp
      \/ (readings[j].timestamp = readings[i].timestamp /\ j <= i)

\* The latest reading of any sensor (a variant without WHERE sensor_id=?).
get_current_any_sensor(sensor_id) ==
  IF readings = << >> THEN None
  ELSE Some(readings[LastRow(1..Len(readings))])

get_current(sensor_id) ==
  IF RowsOf(sensor_id) = {} THEN None
  ELSE Some(readings[LastRow(RowsOf(sensor_id))])

calibrate(value, sensor) == value + sensor.calibration_offset

new_alert(sensor_id, alert_type, severity, message) ==
  [id |-> Len(alerts) + 1, sensor_id |-> sensor_id, type |-> alert_type,
   severity |-> severity, message |-> message, triggered_at |-> clock,
   resolved_at |-> None]

is_active(a) == a.resolved_at = None

\* ------------------------------------------------------ threshold evaluator
\* A variant that checks the lower bound only.
threshold_breach_min_only(val, sensor) ==
  IF val < sensor.min_value
    THEN Some([type |-> "threshold", severity |-> "critical",
               message |-> <<"below minimum", val, sensor.min_value>>])
  ELSE None

\* check_thresholds' comparison of the current reading with the sensor's range:
\* the alert to raise, or None.
threshold_breach(val, sensor) ==
  IF val < sensor.min_value
    THEN Some([type |-> "threshold", severity |-> "critical",
               message |-> <<"below minimum", val, sensor.min_value>>])
  ELSE IF val > sensor.max_value
    THEN Some([type |-> "threshold", severity |-> "critical",
               message |-> <<"above maximum", val, sensor.max_value>>])
  ELSE None

\* --------------------------------------------------------- anomaly detector
\* Sum of the calibrated values of a set of rows, and of their squares.
RECURSIVE SumValues(_)
SumValues(rows) ==
  IF rows = {} THEN 0
  ELSE LET i == CHOOSE j \in rows : TRUE
       IN readings[i].calibrated_value + SumValues(rows \ {i})

RECURSIVE SumSquares(_)
SumSquares(rows) ==
  IF rows = {} THEN 0
  ELSE LET i == CHOOSE j \in rows : TRUE
       IN readings[i].calibrated_value * readings[i].calibrated_value
            + SumSquares(rows \ {i})

\* A variant of the query without its quality filter.
window_rows_any_quality(sensor_id, since) ==
  {i \in RowsOf(sensor_id) : readings[i].timestamp >= since}

\* WHERE sensor_id=? AND timestamp >= ? AND quality != 'error'
window_rows(sensor_id, since) ==
  {i \in RowsOf(sensor_id) :
     readings[i].timestamp >= since /\ readings[i].quality # "error"}

\* The decision of detect_anomaly over the rows of its query, z_threshold
\* given in halves (zt2 = 2 * z_threshold).  With n values of sum S and sum of
\* squares Q, n*Q - S*S = n*(n-1)*stdev^2 and n*latest - S = n*(latest - mean),
\* so z > t is 4*(n*latest-S)^2*(n-1) > zt2^2*n*(n*Q-S*S), without rounding.
anomaly_decision(rows, zt2) ==
  LET n == Cardinality(rows)
      S == SumValues(rows)
      Q == SumSquares(rows)
      nvar == n * Q - S * S
      latest == readings[LastRow(rows)].calibrated_value
      dev2 == (n * latest - S) * (n * latest - S) * (n - 1)
  IN IF n < MinSamples THEN None
     ELSE IF nvar = 0 THEN None
     ELSE IF 4 * dev2 > zt2 * zt2 * n * nvar
       THEN Some([type |-> "anomaly",
                  severity |-> IF 16 * dev2 > 9 * zt2 * zt2 * n * nvar
                                 THEN "critical" ELSE "warning",
                  message |-> <<"Anomaly", latest>>])
     ELSE None

\* ----------------------------------------------------------------- actions
\* Whether the ingestion of caller p has run beside another one: "same" when
\* beside one for the same sensor, "other" when only beside ones for other
\* sensors (history kept for the properties; the program does not read it).
Worse(a, b) ==
  IF a = "same" \/ b = "same" THEN "same"
  ELSE IF a = "other" \/ b = "other" THEN "other"
  ELSE "none"

\* Calls in flight that may still insert a reading, or an alert.
PendingReadings == Cardinality({p \in DOMAIN pc : pc[p] \in {"lr_now", "lr_insert"}})

PendingAlerts == Cardinality({p \in DOMAIN pc : pc[p] # "idle"})

Return(p, method, outcome) ==
  /\ pc' = [pc EXCEPT ![p] = "idle"]
  /\ loc' = [loc EXCEPT ![p] = NoLoc]
  /\ ret' = <<method, outcome>>

tick == clock' = clock + 1 /\ ret' = None /\ UNCHANGED <<sensors, readings, alerts, pc, loc>>

add_sensor(p, sensor_type, min_value, max_value, calibration_offset) ==
  /\ pc[p] = "idle"
  /\ IF sensor_type \notin SensorType
       THEN /\ Return(p, "add_sensor", "ValueError")
            /\ UNCHANGED <<sensors, readings, alerts, clock>>
       ELSE LET defaults == DEFAULT_THRESHOLDS[sensor_type]
                min_val == IF min_value # None THEN min_value[1] ELSE defaults[1]
                max_val == IF max_value # None THEN max_value[1] ELSE defaults[2]
            IN /\ sensors' = Append(sensors,
                     [id |-> Len(sensors) + 1, type |-> sensor_type,
                      min_value |-> min_val, max_value |-> max_val,
                      calibration_offset |-> calibration_offset])
               /\ Return(p, "add_sensor", "Sensor")
               /\ UNCHANGED <<readings, alerts, clock>>

\* A variant that re-derives the stored readings from the new offset.
update_calibration_recompute(p, sensor_id, offset) ==
  /\ pc[p] = "idle"
  /\ IF sensor_id \in SensorIds
       THEN /\ sensors' = [sensors EXCEPT ![sensor_id].calibration_offset = offset]
            /\ readings' = [i \in 1..Len(readings) |->
                              IF readings[i].sensor_id = sensor_id
                                THEN [readings[i] EXCEPT
                                        !.calibrated_value = readings[i].raw_value + offset]
                                ELSE readings[i]]
            /\ Return(p, "update_calibration", "Sensor")
       ELSE /\ UNCHANGED <<sensors, readings>>
            /\ Return(p, "update_calibration", "NotFound")
  /\ UNCHANGED <<alerts, clock>>

update_calibration(p, sensor_id, offset) ==
  /\ pc[p] = "idle"
  /\ IF sensor_id \in SensorIds
       THEN /\ sensors' = [sensors EXCEPT ![sensor_id].calibration_offset = offset]
            /\ Return(p, "update_calibration", "Sensor")
       ELSE /\ UNCHANGED sensors
            /\ Return(p, "update_calibration", "NotFound")
  /\ UNCHANGED <<readings, alerts, clock>>

\* log_reading, lines 162-164: the sensor lookup, the calibration, the quality.
log_reading(p, sensor_id, value, quality) ==
  /\ pc[p] = "idle"
  /\ UNCHANGED <<sensors, readings, alerts, clock>>
  /\ IF get_sensor(sensor_id) = None THEN Return(p, "log_reading", "NotFound")
     ELSE IF quality \notin ReadingQuality THEN Return(p, "log_reading", "ValueError")
     ELSE LET others == {q \in DOMAIN pc : Ingesting(q)}
              rel(q) == IF loc[q].sid = sensor_id THEN "same" ELSE "other"
              mine == IF \E q \in others : rel(q) = "same" THEN "same"
                      ELSE IF others # {} THEN "other" ELSE "none"
          IN /\ pc' = [pc EXCEPT ![p] = "lr_now"]
             /\ loc' = [q \in DOMAIN loc |->
                          IF q = p
                            THEN [NoLoc EXCEPT
                                    !.op = "log_reading", !.sid = sensor_id,
                                    !.value = value,
                                    !.calibrated = calibrate(value, get_sensor(sensor_id)[1]),
                                    !.quality = quality, !.rid = uuid4_reading,
                                    !.ovl = mine]
                          ELSE IF q \in others
                            THEN [loc[q] EXCEPT !.ovl = Worse(loc[q].ovl, rel(q))]
                          ELSE loc[q]]
             /\ ret' = None

\* log_reading, line 165: now = datetime.now(timezone.utc).
log_reading_now(p) ==
  /\ pc[p] = "lr_now"
  /\ loc' = [loc EXCEPT ![p].now = clock]
  /\ pc' = [pc EXCEPT ![p] = "lr_insert"]
  /\ ret' = None /\ UNCHANGED <<sensors, readings, alerts, clock>>

\* log_reading, lines 166-170: the INSERT.
log_reading_insert(p) ==
  /\ pc[p] = "lr_insert"
  /\ readings' = Append(readings,
         [id |-> loc[p].rid, sensor_id |-> loc[p].sid, raw_value |-> loc[p].value,
          calibrated_value |-> loc[p].calibrated, timestamp |-> loc[p].now,
          quality |-> loc[p].quality])
  /\ pc' = [pc EXCEPT ![p] = "ct_current"]
  /\ ret' = None /\ UNCHANGED <<sensors, alerts, clock, loc>>

\* check_thresholds, lines 228-229: reading = get_current(sensor_id).
check_thresholds_current(p) ==
  /\ pc[p] = "ct_current"
  /\ UNCHANGED <<sensors, readings, alerts, clock>>
  /\ IF get_current(loc[p].sid) = None THEN Return(p, "log_reading", "Reading")
     ELSE /\ loc' = [loc EXCEPT ![p].cur = get_current(loc[p].sid)]
          /\ pc' = [pc EXCEPT ![p] = "ct_eval"]
          /\ ret' = None

\* check_thresholds, lines 230-237: the sensor's range against the reading.
check_thresholds_eval(p) ==
  /\ pc[p] = "ct_eval"
  /\ UNCHANGED <<sensors, readings, alerts, clock>>
  /\ LET breach == threshold_breach(loc[p].cur[1].calibrated_value,
                                    get_sensor(loc[p].sid)[1])
     IN IF breach = None THEN Return(p, "log_reading", "Reading")
        ELSE /\ loc' = [loc EXCEPT ![p].alert = breach]
             /\ pc' = [pc EXCEPT ![p] = "ct_alert"]
             /\ ret' = None

\* _create_alert, for the alert check_thresholds or detect_anomaly decided on.
create_alert(p) ==
  /\ pc[p] \in {"ct_alert", "da_alert"}
  /\ alerts' = Append(alerts,
         new_alert(loc[p].sid, loc[p].alert[1].type, loc[p].alert[1].severity,
                   loc[p].alert[1].message))
  /\ IF pc[p] = "ct_alert" THEN Return(p, "log_reading", "Reading")
                          ELSE Return(p, "detect_anomaly", "Alert")
  /\ UNCHANGED <<sensors, readings, clock>>

\* detect_anomaly, line 209: since = now - window.
detect_anomaly(p, sensor_id, window, zt2) ==
  /\ pc[p] = "idle"
  /\ loc' = [loc EXCEPT ![p] = [NoLoc EXCEPT !.op = "detect_anomaly",
                                  !.sid = sensor_id, !.since = clock - window,
                                  !.zt = zt2]]
  /\ pc' = [pc EXCEPT ![p] = "da_query"]
  /\ ret' = None /\ UNCHANGED <<sensors, readings, alerts, clock>>

\* detect_anomaly, lines 210-224: the query and the statistics.
detect_anomaly_query(p) ==
  /\ pc[p] = "da_query"
  /\ UNCHANGED <<sensors, readings, alerts, clock>>
  /\ LET rows == window_rows(loc[p].sid, loc[p].since)
         found == anomaly_decision(rows, loc[p].zt)
     IN IF found = None THEN Return(p, "detect_anomaly", "None")
        ELSE /\ loc' = [loc EXCEPT ![p].alert = found]
             /\ pc' = [pc EXCEPT ![p] = "da_alert"]
             /\ ret' = None

\* mark_sensor_offline: _create_alert; the alerts table's foreign key refuses
\* a sensor id that is not in sensors.
mark_sensor_offline(p, sensor_id) ==
  /\ pc[p] = "idle"
  /\ IF sensor_id \in SensorIds
       THEN /\ alerts' = Append(alerts,
                   new_alert(sensor_id, "offline", "warning", <<"appears offline">>))
            /\ Return(p, "mark_sensor_offline", "Alert")
       ELSE /\ UNCHANGED alerts
            /\ Return(p, "mark_sensor_offline", "IntegrityError")
  /\ UNCHANGED <<sensors, readings, clock>>

AlertIds == 1..Len(alerts)

\* A variant that flips the alert: a second call makes it active again.
resolve_alert_toggle(p, alert_id) ==
  /\ pc[p] = "idle"
  /\ IF alert_id \in AlertIds
       THEN /\ alerts' = [alerts EXCEPT ![alert_id].resolved_at =
                            IF alerts[alert_id].resolved_at = None
                              THEN Some(clock) ELSE None]
            /\ Return(p, "resolve_alert", "Alert")
       ELSE /\ UNCHANGED alerts
            /\ Return(p, "resolve_alert", "NotFound")
  /\ UNCHANGED <<sensors, readings, clock>>

\* A variant whose UPDATE has lost its WHERE id=?: every alert is stamped, and
\* the SELECT still decides between the alert and the not-found error.
resolve_alert_no_where(p, alert_id) ==
  /\ pc[p] = "idle"
  /\ alerts' = [i \in 1..Len(alerts) |->
                  [alerts[i] EXCEPT !.resolved_at = Some(clock)]]
  /\ IF alert_id \in AlertIds
       THEN Return(p, "resolve_alert", "Alert")
       ELSE Return(p, "resolve_alert", "NotFound")
  /\ UNCHANGED <<sensors, readings, clock>>

resolve_alert(p, alert_id) ==
  /\ pc[p] = "idle"
  /\ IF alert_id \in AlertIds
       THEN /\ alerts' = [alerts EXCEPT ![alert_id].resolved_at = Some(clock)]
            /\ Return(p, "resolve_alert", "Alert")
       ELSE /\ UNCHANGED alerts
            /\ Return(p, "resolve_alert", "NotFound")
  /\ UNCHANGED <<sensors, readings, clock>>

\* ------------------------------------------------------------ specification
Step(in) ==
  \/ clock < in.maxClock /\ tick
  \/ \E p \in in.procs :
       \/ \E t \in in.types, lo \in in.mins, hi \in in.maxs, off \in in.offsets :
            Len(sensors) < in.maxSensors /\ add_sensor(p, t, lo, hi, off)
       \/ \E s \in 0..Len(sensors), off \in in.offsets : update_calibration(p, s, off)
       \/ \E s \in 0..Len(sensors), v \in in.values, q \in in.qualities :
            /\ Len(readings) + PendingReadings < in.maxReadings
            /\ Len(alerts) + PendingAlerts < in.maxAlerts
            /\ log_reading(p, s, v, q)
       \/ log_reading_now(p)
       \/ log_reading_insert(p)
       \/ check_thresholds_current(p)
       \/ check_thresholds_eval(p)
       \/ create_alert(p)
       \/ \E s \in 0..Len(sensors), w \in in.windows, z \in in.zts :
            /\ Len(alerts) + PendingAlerts < in.maxAlerts
            /\ detect_anomaly(p, s, w, z)
       \/ detect_anomaly_query(p)
       \/ \E s \in 0..Len(sensors) :
            /\ Len(alerts) + PendingAlerts < in.maxAlerts
            /\ mark_sensor_offline(p, s)
       \/ \E a \in 0..Len(alerts) : resolve_alert(p, a)

Next == Step(ConcInputs)

Spec == Init /\ [][Next]_vars

NextSensor == Step(SensorInputs)

SpecSensor == Init /\ [][NextSensor]_vars

NextSeq == Step(SeqInputs)

SpecSeq == Init /\ [][NextSeq]_vars

NextRegister == Step(RegisterInputs)

SpecRegister == Init /\ [][NextRegister]_vars

\* ------------------------------------------------------------- properties
Callers == DOMAIN pc

OutOfRange(val, sensor) == val < sensor.min_value \/ val > sensor.max_value

ReadingsOf(sensor_id) == SelectSeq(readings, LAMBDA r : r.sensor_id = sensor_id)

\* The step in which caller p's log_reading returns: the call has added one
\* active critical threshold alert for its sensor when its own calibrated value
\* is out of the sensor's range, and none when it is inside.
IngestOutcome(p) ==
  IF OutOfRange(loc[p].calibrated, sensors[loc[p].sid])
    THEN /\ pc[p] = "ct_alert"
         /\ Len(alerts') = Len(alerts) + 1
         /\ SubSeq(alerts', 1, Len(alerts)) = alerts
         /\ LET a == alerts'[Len(alerts')]
            IN /\ a.sensor_id = loc[p].sid
               /\ a.type = "threshold"
               /\ a.severity = "critical"
               /\ is_active(a)
    ELSE /\ pc[p] # "ct_alert"
         /\ alerts' = alerts

\* A step of caller p's log_reading that does not return yet adds no alert.
IngestStepQuiet(p) ==
  (Ingesting(p) /\ pc'[p] \notin {"idle", pc[p]}) => alerts' = alerts

\* C1: every log_reading that runs beside no other log_reading adds exactly one
\* active critical threshold alert for its sensor when its calibrated value is
\* below min_value or above max_value (also when such an alert is already
\* active), and no alert when the value is inside the range.
C1_ThresholdPerIngestion ==
  [][\A p \in Callers :
       /\ (Ingesting(p) /\ loc[p].ovl = "none" /\ pc'[p] = "idle") => IngestOutcome(p)
       /\ IngestStepQuiet(p)]_vars

\* Two active threshold alerts of one sensor with the same message: the second
\* ingestion of an out-of-range value has added its own alert.
C1_Witness ==
  \E i, j \in 1..Len(alerts) :
    /\ i < j
    /\ alerts[i].type = "threshold" /\ alerts[j].type = "threshold"
    /\ alerts[i].sensor_id = alerts[j].sensor_id
    /\ alerts[i].message = alerts[j].message
    /\ is_active(alerts[i]) /\ is_active(alerts[j])

\* C2: a reading is stored with calibrated_value = raw_value + the offset the
\* sensor had when the call looked it up, and no later step (an
\* update_calibration among them) changes a stored reading.
C2_CalibrationAtIngestion ==
  [][/\ \A i \in 1..Len(readings) : i <= Len(readings') /\ readings'[i] = readings[i]
     /\ \A p \in Callers :
          /\ (pc[p] = "idle" /\ pc'[p] = "lr_now") =>
                loc'[p].calibrated =
                  loc'[p].value + sensors[loc'[p].sid].calibration_offset
          /\ (pc[p] = "lr_insert" /\ pc'[p] = "ct_current") =>
                /\ Len(readings') = Len(readings) + 1
                /\ readings'[Len(readings')].raw_value = loc[p].value
                /\ readings'[Len(readings')].calibrated_value = loc[p].calibrated]_vars

\* A stored reading whose sensor has been recalibrated since: its calibrated
\* value is no longer raw_value + the sensor's present offset.
C2_Witness ==
  \E i \in 1..Len(readings) :
    readings[i].calibrated_value #
      readings[i].raw_value + sensors[readings[i].sensor_id].calibration_offset

\* C3: every alert is created active, and a resolved alert stays resolved (and
\* stored) in every later state.
C3_ResolvedIsTerminal ==
  [][/\ Len(alerts') >= Len(alerts)
     /\ \A i \in 1..Len(alerts') :
          IF i <= Len(alerts)
            THEN alerts[i].resolved_at # None => alerts'[i].resolved_at # None
            ELSE alerts'[i].resolved_at = None]_vars

\* A resolved alert beside an active one that was triggered after the
\* resolution.
C3_Witness ==
  \E i, j \in 1..Len(alerts) :
    /\ alerts[i].resolved_at # None
    /\ alerts[j].resolved_at = None
    /\ alerts[j].triggered_at > alerts[i].resolved_at[1]

\* C4: a resolve_alert of an alert that is already resolved leaves the stored
\* alert as it is (as a no-op does, and as a call that fails does).
C4_SecondResolveKeeps ==
  [][\A i \in 1..Len(alerts) :
       alerts[i].resolved_at # None =>
         (i <= Len(alerts') /\ alerts'[i] = alerts[i])]_vars

\* C5: log_reading is atomic: also beside another log_reading for the same
\* sensor, a call evaluates the reading it inserted itself, so that it adds
\* the threshold alert its own calibrated value calls for and no other, as the
\* calls do when they run one after the other.
C5_IngestAtomic ==
  [][\A p \in Callers :
       (Ingesting(p) /\ pc'[p] = "idle") => IngestOutcome(p)]_vars

\* C6: a log_reading for a sensor id that is not registered raises the
\* not-found error at once and leaves sensors, readings and alerts as they are.
C6_UnknownSensor ==
  [][\A p \in Callers, s \in 0..MaxSensors,
        v \in ConcInputs.values, q \in ConcInputs.qualities :
       (log_reading(p, s, v, q) /\ s \notin SensorIds) =>
         /\ ret' = <<"log_reading", "NotFound">>
         /\ pc'[p] = "idle"
         /\ UNCHANGED <<sensors, readings, alerts>>]_vars

\* A log_reading has just failed with not-found while a sensor is registered.
C6_Witness ==
  /\ ret = <<"log_reading", "NotFound">>
  /\ Len(sensors) > 0

\* C7: detect_anomaly returns None and adds no alert when fewer than 5
\* readings of its sensor that are not of quality error lie in its window.
C7_FewSamples ==
  [][\A p \in Callers :
       (/\ pc[p] = "da_query"
        /\ pc'[p] # "da_query"
        /\ Cardinality({i \in 1..Len(readings) :
                          /\ readings[i].sensor_id = loc[p].sid
                          /\ readings[i].timestamp >= loc[p].since
                          /\ readings[i].quality # "error"}) < MinSamples) =>
         /\ ret' = <<"detect_anomaly", "None">>
         /\ pc'[p] = "idle"
         /\ alerts' = alerts]_vars

\* detect_anomaly has just returned None with 5 readings stored, an error one
\* among them, so that fewer than 5 count.
C7_Witness ==
  /\ ret = <<"detect_anomaly", "None">>
  /\ Len(readings) >= MinSamples
  /\ \E i \in 1..Len(readings) : readings[i].quality = "error"
  /\ Cardinality({i \in 1..Len(readings) : readings[i].quality # "error"}) < MinSamples

\* C8: the readings of a sensor carry non-decreasing timestamps in the order
\* of their insertion.
C8_TimestampsByInsertion ==
  \A i, j \in 1..Len(readings) :
    (i < j /\ readings[i].sensor_id = readings[j].sensor_id) =>
      readings[i].timestamp <= readings[j].timestamp

\* C9: every registered sensor has min_value <= max_value.
C9_RangeOrdered ==
  \A s \in SensorIds : sensors[s].min_value <= sensors[s].max_value

\* C10: a log_reading that runs beside log_reading calls for other sensors only
\* stores exactly its own reading among the readings of its sensor, leaves
\* the readings of every other sensor as they are, and adds the threshold alert
\* its own calibrated value calls for, as it does when it runs alone.
C10_OtherSensorsApart ==
  [][\A p \in Callers :
       /\ (Ingesting(p) /\ loc[p].ovl # "same" /\ pc'[p] = "idle") => IngestOutcome(p)
       /\ (pc[p] = "lr_insert" /\ pc'[p] = "ct_current") =>
            \A s \in SensorIds :
              ReadingsOf(s)' =
                IF s = loc[p].sid
                  THEN Append(ReadingsOf(s),
                         [id |-> loc[p].rid, sensor_id |-> s,
                          raw_value |-> loc[p].value,
                          calibrated_value |-> loc[p].calibrated,
                          timestamp |-> loc[p].now, quality |-> loc[p].quality])
                  ELSE ReadingsOf(s)]_vars

\* Two calls for different sensors in flight, both readings stored, and the
\* one whose value is out of range about to add its alert.
C10_Witness ==
  \E p, q \in Callers :
    /\ pc[p] = "ct_alert"
    /\ pc[q] \in {"ct_current", "ct_eval"}
    /\ loc[p].sid # loc[q].sid
    /\ loc[p].ovl = "other"
    /\ ~OutOfRange(loc[q].calibrated, sensors[loc[q].sid])

\* C11: a resolve_alert with an id that no stored alert has raises the
\* not-found error and leaves every alert (its resolved_at included), every
\* reading and every sensor as it is; no alert is added.
C11_UnknownAlert ==
  [][\A p \in Callers, a \in 0..(Len(alerts) + 1) :
       (resolve_alert(p, a) /\ ~(\E i \in 1..Len(alerts) : alerts[i].id = a)) =>
         /\ ret' = <<"resolve_alert", "NotFound">>
         /\ pc'[p] = "idle"
         /\ UNCHANGED <<alerts, readings, sensors>>]_vars

\* A resolve_alert has just failed with not-found while an active alert, a
\* resolved alert and a reading are stored.
C11_Witness ==
  /\ ret = <<"resolve_alert", "NotFound">>
  /\ \E i \in 1..Len(alerts) : alerts[i].resolved_at = None
  /\ \E i \in 1..Len(alerts) : alerts[i].resolved_at # None
  /\ Len(readings) > 0

====
